---- MODULE Spec2Model ----
(***************************************************************************)
(* Model of the skykey manager (src/skykey/skykey.go): the in-memory dual  *)
(* index, the headered append-only persist file, the append protocol of    *)
(* saveKey/saveHeader and the load loop of NewSkykeyManager.               *)
(* Spec is the manager with one call at a time, ConcSpec the manager with  *)
(* several threads, EnumSpec a caller that writes into the keys it was     *)
(* given, SubSpec the derivation of subkeys.                               *)
(*                                                                         *)
(* The persist file is a header (magic, version, file_len) followed by a   *)
(* body of cells.  A length prefix and a cipher-type specifier take one    *)
(* cell each, a name or entropy byte takes one cell; offsets in the body   *)
(* are counted in cells and the header occupies headerLen positions.       *)
(***************************************************************************)
EXTENDS Integers, Sequences, FiniteSets, TLC

(***************************************************************************)
(* Bounds of the model.                                                    *)
(***************************************************************************)
\* cells of the key part of an XChaCha20 entropy (chacha.KeySize, scaled)
KeySize == 1
\* cells of the nonce part of an XChaCha20 entropy (chacha.XNonceSize, scaled)
XNonceSize == 1
\* saveKey is called at most MaxSaves times on the file
MaxSaves == 3
\* a readResponseSet is made for at most MaxResponses responses
MaxResponses == 3
\* NewSkykeyManager is called at most MaxLoads times on the file
MaxLoads == 2

(***************************************************************************)
(* Program constants.                                                      *)
(***************************************************************************)
MaxKeyNameLen == 128
headerLen == 40
TypeXChaCha20 == 4
TypeTwofish == 2
SkykeyFileMagic == "SkykeyFile"
skykeyVersion == <<1, 4, 4>>

(***************************************************************************)
(* Maps (Go map[K]V) as functions with a finite domain.                    *)
(***************************************************************************)
EmptyMap == [x \in {} |-> 0]

Put(m, k, v) == [x \in (DOMAIN m) \cup {k} |-> IF x = k THEN v ELSE m[x]]

Range(m) == {m[x] : x \in DOMAIN m}

Fill(v, n) == [i \in 1..n |-> v]

(***************************************************************************)
(* Skykey, its wire form and its ID.                                       *)
(***************************************************************************)
Skykey(name, ct, entropy) == [Name |-> name, CipherType |-> ct, Entropy |-> entropy]

\* a length-prefixed byte string: the prefix cell holds the length
EncodePrefixed(b) == <<Len(b)>> \o b

marshalSiaEntropyFirst(sk) ==
    EncodePrefixed(sk.Entropy) \o <<sk.CipherType>> \o EncodePrefixed(sk.Name)

\* the name, the cipher type and the entropy, in this order
marshalSia(sk) ==
    EncodePrefixed(sk.Name) \o <<sk.CipherType>> \o EncodePrefixed(sk.Entropy)

\* decoding of a length-prefixed byte string of body starting after off cells
DecodePrefixed(body, off) ==
    IF off + 1 > Len(body)
    THEN [ok |-> FALSE, val |-> <<>>, off |-> off]
    ELSE LET n == body[off + 1] IN
         IF off + 1 + n > Len(body)
         THEN [ok |-> FALSE, val |-> <<>>, off |-> off]
         ELSE [ok |-> TRUE, val |-> SubSeq(body, off + 2, off + 1 + n),
               off |-> off + 1 + n]

\* decoding of one record of body starting after off cells; off is the
\* position of the reader after the record
unmarshalSia(body, off) ==
    LET nm == DecodePrefixed(body, off) IN
    IF ~nm.ok THEN [ok |-> FALSE, sk |-> Skykey(<<>>, 0, <<>>), off |-> off]
    ELSE IF nm.off + 1 > Len(body)
    THEN [ok |-> FALSE, sk |-> Skykey(<<>>, 0, <<>>), off |-> off]
    ELSE LET en == DecodePrefixed(body, nm.off + 1) IN
         IF ~en.ok THEN [ok |-> FALSE, sk |-> Skykey(<<>>, 0, <<>>), off |-> off]
         ELSE [ok |-> TRUE, sk |-> Skykey(nm.val, body[nm.off + 1], en.val),
               off |-> en.off]

\* the hash is injective on its input: the cipher type and the hashed entropy
HashAll(ct, entropy) == <<ct, entropy>>

\* slicing Entropy[:KeySize] of a shorter entropy panics
IDPanics(sk) == sk.CipherType = TypeXChaCha20 /\ Len(sk.Entropy) < KeySize

IDWholeEntropy(sk) == HashAll(sk.CipherType, sk.Entropy)

ID(sk) ==
    IF sk.CipherType = TypeXChaCha20
    THEN HashAll(sk.CipherType, SubSeq(sk.Entropy, 1, KeySize))
    ELSE HashAll(sk.CipherType, sk.Entropy)

SupportsCipherType(ct) == ct = TypeXChaCha20

(***************************************************************************)
(* Versions (build.IsVersion, build.VersionCmp).                           *)
(***************************************************************************)
IsVersion(v) == Len(v) > 0

RECURSIVE VersionCmp(_, _)
VersionCmp(a, b) ==
    IF a = <<>> /\ b = <<>> THEN 0
    ELSE IF a = <<>> THEN 0 - 1
    ELSE IF b = <<>> THEN 1
    ELSE IF Head(a) < Head(b) THEN 0 - 1
    ELSE IF Head(a) > Head(b) THEN 1
    ELSE VersionCmp(Tail(a), Tail(b))

(***************************************************************************)
(* The persist file.                                                       *)
(***************************************************************************)
\* a file shorter than headerLen has no header and no body
ShortFile == [short |-> TRUE, magic |-> "", version |-> <<>>, fileLen |-> 0,
              body |-> <<>>]

File(magic, version, fileLen, body) ==
    [short |-> FALSE, magic |-> magic, version |-> version, fileLen |-> fileLen,
     body |-> body]

Size(d) == IF d.short THEN 0 ELSE headerLen + Len(d.body)

\* file.Write of bytes at file offset pos (pos >= headerLen); a gap between
\* the end of the file and pos reads as zeros
WriteAt(body, pos, bytes) ==
    LET off == pos - headerLen
        end == off + Len(bytes)
        newLen == IF end > Len(body) THEN end ELSE Len(body)
    IN [i \in 1..newLen |->
            IF i > off /\ i <= end THEN bytes[i - off]
            ELSE IF i <= Len(body) THEN body[i]
            ELSE 0]

(***************************************************************************)
(* The manager and the inputs of its callers.                              *)
(***************************************************************************)
NoManager == [idsByName |-> EmptyMap, keysByID |-> EmptyMap, version |-> <<>>,
              fileLen |-> 0]

Names == {<<1>>, <<2>>}

\* a name one byte longer than the longest accepted name
LongName == Fill(1, MaxKeyNameLen + 1)

CipherTypes == {TypeXChaCha20, TypeTwofish}

\* entropies of the form key || nonce, as crypto.GenerateSiaKey draws them
XChaChaEntropies ==
    {Fill(k, KeySize) \o Fill(0, XNonceSize) : k \in {1, 2}}

\* keys offered to AddKey: well-formed XChaCha20 keys (among them keys that
\* differ from another one in the nonce only), a key of another cipher
\* type, and an XChaCha20 key whose entropy is shorter than KeySize
AddableKeys ==
    {Skykey(nm, TypeXChaCha20, e) : nm \in Names, e \in XChaChaEntropies}
    \cup {Skykey(nm, TypeXChaCha20, Fill(1, KeySize) \o Fill(1, XNonceSize)) : nm \in Names}
    \cup {Skykey(<<1>>, TypeTwofish, <<1>>)}
    \cup {Skykey(<<1>>, TypeXChaCha20, <<>>)}

\* cells of the record of a well-formed XChaCha20 key with a one-byte name
RecLen == Len(marshalSia(Skykey(<<1>>, TypeXChaCha20, Fill(1, KeySize + XNonceSize))))

(***************************************************************************)
(* Persist files found on disk before the first manager is constructed.    *)
(***************************************************************************)
K1 == Skykey(<<1>>, TypeXChaCha20, Fill(1, KeySize) \o Fill(0, XNonceSize))
K2 == Skykey(<<2>>, TypeXChaCha20, Fill(2, KeySize) \o Fill(0, XNonceSize))

InitFiles ==
    { ShortFile,
      \* trailing bytes past file_len, longer than a record
      File(SkykeyFileMagic, skykeyVersion, headerLen, Fill(9, RecLen + 1)),
      \* an older version, one record and a trailing byte
      File(SkykeyFileMagic, <<1, 4, 3>>, headerLen + RecLen, marshalSia(K1) \o <<7>>),
      \* file_len inside a record, past the end of the file, inside a second
      \* record, below the header
      File(SkykeyFileMagic, skykeyVersion, headerLen + 2, marshalSia(K1)),
      File(SkykeyFileMagic, skykeyVersion, headerLen + RecLen + 2, marshalSia(K1)),
      File(SkykeyFileMagic, skykeyVersion, headerLen + RecLen + 2,
           marshalSia(K1) \o marshalSia(K2)),
      File(SkykeyFileMagic, skykeyVersion, headerLen - 1, <<>>),
      \* bad headers
      File("NotSkykeyFile", skykeyVersion, headerLen, <<>>),
      File(SkykeyFileMagic, <<9, 9, 9>>, headerLen, <<>>),
      File(SkykeyFileMagic, <<>>, headerLen, <<>>),
      \* an XChaCha20 record whose entropy is shorter than KeySize
      File(SkykeyFileMagic, skykeyVersion,
           headerLen + Len(marshalSia(Skykey(<<1>>, TypeXChaCha20, <<>>))),
           marshalSia(Skykey(<<1>>, TypeXChaCha20, <<>>))) }

(***************************************************************************)
(* load, loadHeader, saveHeader.                                           *)
(***************************************************************************)
loadHeaderAnyVersion(d) ==
    IF d.magic # SkykeyFileMagic
    THEN [err |-> "magic", version |-> <<>>, fileLen |-> 0]
    ELSE IF ~IsVersion(d.version)
    THEN [err |-> "noversion", version |-> d.version, fileLen |-> 0]
    ELSE [err |-> "nil", version |-> d.version, fileLen |-> d.fileLen]

loadHeader(d) ==
    IF d.magic # SkykeyFileMagic
    THEN [err |-> "magic", version |-> <<>>, fileLen |-> 0]
    ELSE IF ~IsVersion(d.version)
    THEN [err |-> "noversion", version |-> d.version, fileLen |-> 0]
    ELSE IF VersionCmp(skykeyVersion, d.version) < 0
    THEN [err |-> "unknownversion", version |-> d.version, fileLen |-> 0]
    ELSE [err |-> "nil", version |-> d.version, fileLen |-> d.fileLen]

\* the header as saveHeader encodes it from the manager s
saveHeader(d, s) ==
    File(SkykeyFileMagic, s.version, s.fileLen, d.body)

\* the test after the loop of load: the reader stands at offset n
loadLoopEndAlwaysNil(n, fileLen) == "nil"

loadLoopEndShortOnly(n, fileLen) == IF n < fileLen THEN "length" ELSE "nil"

loadLoopEnd(n, fileLen) == IF n # fileLen THEN "length" ELSE "nil"

\* the loop of load: n is the file offset of the reader
RECURSIVE loadLoop(_, _, _)
loadLoop(d, s, n) ==
    IF n < s.fileLen
    THEN LET r == unmarshalSia(d.body, n - headerLen) IN
         IF ~r.ok THEN [err |-> "unmarshal", sm |-> s]
         ELSE IF IDPanics(r.sk) THEN [err |-> "panic", sm |-> s]
         ELSE loadLoop(d,
                       [s EXCEPT !.idsByName = Put(@, r.sk.Name, ID(r.sk)),
                                 !.keysByID = Put(@, ID(r.sk), r.sk)],
                       headerLen + r.off)
    ELSE [err |-> loadLoopEnd(n, s.fileLen), sm |-> s]

\* load of a file that has a header
load(d) ==
    LET h == loadHeader(d) IN
    IF h.err # "nil" THEN [err |-> h.err, sm |-> NoManager]
    ELSE loadLoop(d, [NoManager EXCEPT !.version = h.version,
                                       !.fileLen = h.fileLen], headerLen)

(***************************************************************************)
(* Lookups.                                                                *)
(***************************************************************************)
NoKey == Skykey(<<>>, 0, <<>>)

IDByName(s, name) ==
    IF name \notin DOMAIN s.idsByName
    THEN [err |-> "NoSuchName", id |-> <<>>]
    ELSE [err |-> "nil", id |-> s.idsByName[name]]

KeyByName(s, name) ==
    IF name \notin DOMAIN s.idsByName
    THEN [err |-> "NoSuchName", key |-> NoKey]
    ELSE IF s.idsByName[name] \notin DOMAIN s.keysByID
    THEN [err |-> "NoSuchID", key |-> NoKey]
    ELSE [err |-> "nil", key |-> s.keysByID[s.idsByName[name]]]

KeyByID(s, id) ==
    IF id \notin DOMAIN s.keysByID
    THEN [err |-> "NoSuchID", key |-> NoKey]
    ELSE [err |-> "nil", key |-> s.keysByID[id]]

\* the keys AllSkykeys returns, in no order
AllSkykeys(s) == Range(s.keysByID)

(***************************************************************************)
(* State.                                                                  *)
(***************************************************************************)
VARIABLES
    disk,       \* the persist file
    alive,      \* a manager has been returned and the process runs
    sm,         \* the manager: idsByName, keysByID, version, fileLen
    op,         \* the CreateKey/AddKey call that holds sm.mu, or Idle
    result,     \* what the last finished call returned
    accepted,   \* history: some load of this file has succeeded
    acked,      \* history: keys loaded by, or saved with success on, sm
    dirty,      \* history: a save on sm returned an I/O error
    untouched,  \* history: no save was started on sm since it was loaded
    loads,      \* history: the number of calls of NewSkykeyManager
    saves       \* history: the number of calls of saveKey

\* the callers of one manager that run at the same time (Threads, below)
VARIABLES
    mu,         \* sm.mu: the thread that holds the mutex, or NoThread
    thr,        \* for each thread, the call it is in and where it stands
    wins        \* history: for each key, the saves of it that returned nil

\* a caller that mutates the keys a method has returned to it
VARIABLES
    heap,       \* the arrays behind the Entropy slices, by address
    keys        \* the slice of keys that AllSkykeys has returned to the caller

\* a caller that derives a subkey from a key
VARIABLES
    master,     \* the key SubkeyWithNonce is called on
    other,      \* another key
    nonce,      \* the nonce given to SubkeyWithNonce
    subkey      \* what SubkeyWithNonce returned

\* a readResponseSet, the channel that feeds it and the code that reads it
VARIABLES
    set,        \* the readResponseSet: responses left and responses read
    chan,       \* the channel: what the sending goroutine has sent and will send
    ctx,        \* the cancellable context is cancelled
    caller      \* the call of next or collect in progress, or the last one

thrvars == <<mu, thr, wins>>

respvars == <<set, chan, ctx, caller>>

enumvars == <<heap, keys>>

subvars == <<master, other, nonce, subkey>>

\* the variables of these callers; calls made one at a time (Spec) leave
\* them alone
cvars == <<thrvars, enumvars, subvars, respvars>>

vars == <<disk, alive, sm, op, result, accepted, acked, dirty, untouched, loads,
          saves, mu, thr, wins, heap, keys, master, other, nonce, subkey,
          set, chan, ctx, caller>>

NoPre == [idsByName |-> EmptyMap, keysByID |-> EmptyMap, fileLen |-> 0,
          hdrFileLen |-> 0, size |-> 0]

Threads == {1, 2}

\* the mutex is unlocked
NoThread == 0

\* a thread that is in no call.  exp is what the call returns when it runs
\* alone on the manager as it is when the call takes the mutex, ret is what
\* the call returned; waited says that another thread held the mutex when
\* the call was made
NoCall == [pc |-> "idle", call |-> "", name |-> <<>>, id |-> <<>>, key |-> NoKey,
           exp |-> "", ret |-> "", waited |-> FALSE]

\* pos is the offset of the open file, written the number of cells of the
\* record written to it
Idle == [kind |-> "idle", pc |-> "", key |-> NoKey, pos |-> 0, written |-> 0,
         pre |-> NoPre, first |-> FALSE]

\* pre is the state the call found; first says that no save was started on
\* the manager before this call; reopen says that NewSkykeyManager was called
\* while an idle manager without failed saves was on the file
Result(kind, err, key, pre, first, reopen) ==
    [op |-> kind, err |-> err, key |-> key, pre |-> pre, first |-> first,
     reopen |-> reopen]

NoResult == Result("none", "nil", NoKey, NoPre, FALSE, FALSE)

\* the state a call finds when it takes the lock
Pre == [idsByName |-> sm.idsByName, keysByID |-> sm.keysByID,
        fileLen |-> sm.fileLen, hdrFileLen |-> disk.fileLen,
        size |-> Size(disk)]

\* no thread is in a call
NoThreads ==
    /\ mu = NoThread
    /\ thr = [t \in Threads |-> NoCall]
    /\ wins = EmptyMap

\* no keys were returned to a caller
NoEnum ==
    /\ heap = EmptyMap
    /\ keys = <<>>

\* no subkey is asked for
NoSubkey ==
    /\ master = NoKey
    /\ other = NoKey
    /\ nonce = <<>>
    /\ subkey = [err |-> "", key |-> NoKey]

\* no call of next or collect was made.  kind is "next" or "collect", cx the
\* context given to the call, n the number of responses the set was made
\* for, left0 the responses left when the call was made; isNil and resp are
\* what next returned, resps what collect returned
NoRespCall == [pc |-> "idle", kind |-> "", cx |-> "", n |-> 0, left0 |-> 0,
               isNil |-> TRUE, resp |-> 0, resps |-> <<>>]

\* no readResponseSet is made
NoResponses ==
    /\ set = [left |-> 0, readResps |-> <<>>]
    /\ chan = [i |-> 0, total |-> 0]
    /\ ctx = FALSE
    /\ caller = NoRespCall

Init ==
    /\ disk \in InitFiles
    /\ alive = FALSE
    /\ sm = NoManager
    /\ op = Idle
    /\ result = NoResult
    /\ accepted = FALSE
    /\ acked = {}
    /\ dirty = FALSE
    /\ untouched = FALSE
    /\ loads = 0
    /\ saves = 0
    /\ NoThreads
    /\ NoEnum
    /\ NoSubkey
    /\ NoResponses

(***************************************************************************)
(* NewSkykeyManager: MkdirAll and load.  A failure returns no manager.     *)
(***************************************************************************)
Loaded(d, s) ==
    /\ disk' = d
    /\ alive' = TRUE
    /\ sm' = s
    /\ result' = Result("NewSkykeyManager", "nil", NoKey, NoPre, FALSE,
                        alive /\ ~dirty)
    /\ accepted' = TRUE
    /\ acked' = Range(s.keysByID)
    /\ dirty' = FALSE
    /\ untouched' = TRUE

LoadFailed(d, err) ==
    /\ disk' = d
    /\ alive' = FALSE
    /\ sm' = NoManager
    /\ result' = Result("NewSkykeyManager", err, NoKey, NoPre, FALSE,
                        alive /\ ~dirty)
    /\ acked' = {}
    /\ dirty' = FALSE
    /\ untouched' = FALSE
    /\ UNCHANGED accepted

NewSkykeyManager ==
    /\ op.kind = "idle"
    /\ loads < MaxLoads
    /\ loads' = loads + 1
    /\ UNCHANGED <<op, saves>>
    /\ UNCHANGED cvars
    /\ \/ \* MkdirAll, OpenFile, Stat, Read or Seek fails
          LoadFailed(disk, "io")
       \/ \* no header yet: default values are set and saved
          /\ disk.short
          /\ LET s == [NoManager EXCEPT !.version = skykeyVersion,
                                        !.fileLen = headerLen]
             IN \/ Loaded(saveHeader(disk, s), s)
                \/ \* the header is written and Sync fails
                   LoadFailed(saveHeader(disk, s), "io")
       \/ /\ ~disk.short
          /\ LET r == load(disk) IN
             IF r.err = "nil" THEN Loaded(disk, r.sm) ELSE LoadFailed(disk, r.err)

(***************************************************************************)
(* CreateKey and AddKey up to the call of saveKey.  A call that is         *)
(* rejected returns at once; the others insert the key into both maps      *)
(* (saveKey, first statements) and go on to the append, lock held.         *)
(***************************************************************************)
Reject(kind, err, key) ==
    /\ result' = Result(kind, err, key, Pre, untouched, FALSE)
    /\ UNCHANGED <<disk, alive, sm, op, accepted, acked, dirty, untouched, loads,
                   saves>>

saveKeyStoreNameOnly(s, sk) ==
    [s EXCEPT !.idsByName = Put(@, sk.Name, ID(sk))]

\* saveKey: the key is stored in both maps before the file is opened
saveKeyStore(s, sk) ==
    [s EXCEPT !.idsByName = Put(@, sk.Name, ID(sk)),
              !.keysByID = Put(@, ID(sk), sk)]

StartSave(kind, sk) ==
    /\ saves < MaxSaves
    /\ saves' = saves + 1
    /\ sm' = saveKeyStore(sm, sk)
    /\ op' = [kind |-> kind, pc |-> "open", key |-> sk, pos |-> 0, written |-> 0,
              pre |-> Pre, first |-> untouched]
    /\ result' = NoResult
    /\ untouched' = FALSE
    /\ UNCHANGED <<disk, alive, accepted, acked, dirty, loads>>

CreateKeyCheckNoName(s, name, ct) ==
    IF Len(name) > MaxKeyNameLen THEN "NameTooLong"
    ELSE IF ~SupportsCipherType(ct) THEN "UnsupportedCipher"
    ELSE "nil"

CreateKeyCheckNoCipher(s, name, ct) ==
    IF Len(name) > MaxKeyNameLen THEN "NameTooLong"
    ELSE IF name \in DOMAIN s.idsByName THEN "NameExists"
    ELSE "nil"

\* the checks of CreateKey before the key is generated
CreateKeyCheck(s, name, ct) ==
    IF Len(name) > MaxKeyNameLen THEN "NameTooLong"
    ELSE IF ~SupportsCipherType(ct) THEN "UnsupportedCipher"
    ELSE IF name \in DOMAIN s.idsByName THEN "NameExists"
    ELSE "nil"

AddKeyCheckNoName(s, sk) ==
    IF IDPanics(sk) THEN "panic"
    ELSE IF ID(sk) \in DOMAIN s.keysByID THEN "IDExists"
    ELSE "nil"

AddKeyCheckNoID(s, sk) ==
    IF IDPanics(sk) THEN "panic"
    ELSE IF sk.Name \in DOMAIN s.idsByName THEN "NameExists"
    ELSE "nil"

AddKeyCheckNameFirst(s, sk) ==
    IF IDPanics(sk) THEN "panic"
    ELSE IF sk.Name \in DOMAIN s.idsByName THEN "NameExists"
    ELSE IF ID(sk) \in DOMAIN s.keysByID THEN "IDExists"
    ELSE "nil"

\* the checks of AddKey
AddKeyCheck(s, sk) ==
    IF IDPanics(sk) THEN "panic"
    ELSE IF ID(sk) \in DOMAIN s.keysByID THEN "IDExists"
    ELSE IF sk.Name \in DOMAIN s.idsByName THEN "NameExists"
    ELSE "nil"

\* crypto.GenerateSiaKey draws the entropy at random: the key it draws is
\* one whose ID no stored key has
CreateKey ==
    /\ alive
    /\ op.kind = "idle"
    /\ UNCHANGED cvars
    /\ \E name \in Names \cup {LongName}, ct \in CipherTypes :
          LET err == CreateKeyCheck(sm, name, ct) IN
          IF err # "nil"
          THEN Reject("CreateKey", err, Skykey(name, ct, <<>>))
          ELSE \E e \in XChaChaEntropies :
                  /\ ID(Skykey(name, ct, e)) \notin DOMAIN sm.keysByID
                  /\ StartSave("CreateKey", Skykey(name, ct, e))

AddKey ==
    /\ alive
    /\ op.kind = "idle"
    /\ UNCHANGED cvars
    /\ \E sk \in AddableKeys :
          LET err == AddKeyCheck(sm, sk) IN
          IF err # "nil"
          THEN Reject("AddKey", err, sk)
          ELSE StartSave("AddKey", sk)

(***************************************************************************)
(* saveKey and saveHeader, one action per file operation.  Each operation  *)
(* either succeeds or fails.                                               *)
(***************************************************************************)
saveKeyAfterIgnoringWriteError(pc, ok) ==
    IF ~ok /\ pc # "write" THEN "return"
    ELSE CASE pc = "open" -> "seek"
           [] pc = "seek" -> "write"
           [] pc = "write" -> "sync"
           [] pc = "sync" -> "hseek"
           [] pc = "hseek" -> "hwrite"
           [] pc = "hwrite" -> "hsync"
           [] pc = "hsync" -> "return"

\* the control flow of saveKey and saveHeader: the statement that follows
\* the file operation pc; an operation that fails returns its error
saveKeyAfter(pc, ok) ==
    IF ~ok THEN "return"
    ELSE CASE pc = "open" -> "seek"
           [] pc = "seek" -> "write"
           [] pc = "write" -> "sync"
           [] pc = "sync" -> "hseek"
           [] pc = "hseek" -> "hwrite"
           [] pc = "hwrite" -> "hsync"
           [] pc = "hsync" -> "return"

saveKeySeekToEnd(s, d) == Size(d)

\* the offset saveKey seeks to before it writes the record
saveKeySeek(s, d) == s.fileLen

saveKeyAdvanceAssign(s, n) == [s EXCEPT !.fileLen = n]

\* sm.fileLen += writer.BytesWritten()
saveKeyAdvance(s, n) == [s EXCEPT !.fileLen = @ + n]

\* the call goes on with the statement after pc, or returns
Step(pc, ok, pos, written) ==
    LET next == saveKeyAfter(pc, ok) IN
    IF next = "return"
    THEN /\ op' = Idle
         /\ result' = Result(op.kind, IF ok THEN "nil" ELSE "io", op.key, op.pre,
                             op.first, FALSE)
         /\ acked' = IF ok THEN acked \cup {op.key} ELSE acked
         /\ dirty' = (dirty \/ ~ok)
         /\ UNCHANGED <<alive, accepted, untouched, loads, saves>>
    ELSE /\ op' = [op EXCEPT !.pc = next, !.pos = pos, !.written = written]
         /\ UNCHANGED <<alive, result, accepted, acked, dirty, untouched, loads,
                        saves>>

InSave(pc) == alive /\ op.kind # "idle" /\ op.pc = pc

\* os.OpenFile(sm.persistFile, os.O_RDWR, defaultFilePerm)
SaveOpen ==
    /\ InSave("open")
    /\ UNCHANGED cvars
    /\ UNCHANGED <<disk, sm>>
    /\ \E ok \in BOOLEAN : Step("open", ok, 0, 0)

\* file.Seek(int64(sm.fileLen), io.SeekStart)
SaveSeek ==
    /\ InSave("seek")
    /\ UNCHANGED cvars
    /\ UNCHANGED <<disk, sm>>
    /\ \E ok \in BOOLEAN : Step("seek", ok, saveKeySeek(sm, disk), 0)

\* skykey.marshalSia(writer): the record goes to the file cell by cell from
\* the offset of the file; a write error may come after any number of cells
SaveWrite ==
    /\ InSave("write")
    /\ UNCHANGED cvars
    /\ UNCHANGED sm
    /\ LET bytes == marshalSia(op.key) IN
       \/ /\ disk' = [disk EXCEPT !.body = WriteAt(@, op.pos, <<bytes[op.written + 1]>>)]
          /\ IF op.written + 1 = Len(bytes)
             THEN Step("write", TRUE, op.pos + 1, op.written + 1)
             ELSE /\ op' = [op EXCEPT !.pos = @ + 1, !.written = @ + 1]
                  /\ UNCHANGED <<alive, result, accepted, acked, dirty, untouched,
                                 loads, saves>>
       \/ /\ UNCHANGED disk
          /\ Step("write", FALSE, op.pos, op.written)

\* file.Sync(), then sm.fileLen += writer.BytesWritten()
SaveSync ==
    /\ InSave("sync")
    /\ UNCHANGED cvars
    /\ UNCHANGED disk
    /\ \E ok \in BOOLEAN :
          /\ sm' = IF ok THEN saveKeyAdvance(sm, op.written) ELSE sm
          /\ Step("sync", ok, op.pos, op.written)

\* saveHeader: file.Seek(0, 0)
SaveHeaderSeek ==
    /\ InSave("hseek")
    /\ UNCHANGED cvars
    /\ UNCHANGED <<disk, sm>>
    /\ \E ok \in BOOLEAN : Step("hseek", ok, 0, op.written)

\* saveHeader: the magic, the version and fileLen are encoded to the file
SaveHeaderWrite ==
    /\ InSave("hwrite")
    /\ UNCHANGED cvars
    /\ UNCHANGED sm
    /\ \E ok \in BOOLEAN :
          /\ disk' = IF ok THEN saveHeader(disk, sm) ELSE disk
          /\ Step("hwrite", ok, IF ok THEN headerLen ELSE 0, op.written)

\* saveHeader: file.Sync(); its result is the result of the call
SaveHeaderSync ==
    /\ InSave("hsync")
    /\ UNCHANGED cvars
    /\ UNCHANGED <<disk, sm>>
    /\ \E ok \in BOOLEAN : Step("hsync", ok, op.pos, op.written)

(***************************************************************************)
(* The process stops: the manager and the call in progress are lost, the   *)
(* file keeps what was written.                                            *)
(***************************************************************************)
Crash ==
    /\ alive
    /\ alive' = FALSE
    /\ UNCHANGED cvars
    /\ sm' = NoManager
    /\ op' = Idle
    /\ result' = Result("crash", "nil", NoKey, NoPre, FALSE, FALSE)
    /\ acked' = {}
    /\ dirty' = FALSE
    /\ untouched' = FALSE
    /\ UNCHANGED <<disk, accepted, loads, saves>>

Next ==
    \/ NewSkykeyManager
    \/ CreateKey
    \/ AddKey
    \/ SaveOpen
    \/ SaveSeek
    \/ SaveWrite
    \/ SaveSync
    \/ SaveHeaderSeek
    \/ SaveHeaderWrite
    \/ SaveHeaderSync
    \/ Crash

Spec == Init /\ [][Next]_vars

TypeOK ==
    /\ alive \in BOOLEAN
    /\ op.kind \in {"idle", "CreateKey", "AddKey"}
    /\ loads \in 0..MaxLoads
    /\ saves \in 0..MaxSaves

(***************************************************************************)
(* Several threads call one manager.  Every public method takes sm.mu      *)
(* first and releases it when it returns (defer sm.mu.Unlock()); between   *)
(* the two, each read or write of a map is a step of its own, and saveKey  *)
(* from the opening of the file to its return is one step.                 *)
(***************************************************************************)
Mutations == {"CreateKey", "AddKey"}

Lookups == {"IDByName", "KeyByName", "KeyByID", "AllSkykeys"}

\* the keys the threads offer to AddKey: a key, a key of the same ID under
\* another name and a key of the same name with another ID
ThreadKeys == {K1, [K1 EXCEPT !.Name = K2.Name], [K1 EXCEPT !.Entropy = K2.Entropy]}

\* the file operations that fail in a save of a thread: one before the record
\* is written, one after fileLen is advanced
ThreadFails == {"open", "hwrite"}

CanLockAlways(m) == TRUE

\* sm.mu.Lock() returns when no thread holds the mutex
CanLock(m) == m = NoThread

\* saveKey after the key is in the maps, when the file operation fail fails
\* (the write after the first cell of the record) or, for "none", none does:
\* what it returns, the manager and the file it leaves
saveKeyRun(s, d, sk, fail) ==
    LET rec == marshalSia(sk)
        pos == saveKeySeek(s, d)
        part == [d EXCEPT !.body = WriteAt(@, pos, SubSeq(rec, 1, 1))]
        full == [d EXCEPT !.body = WriteAt(@, pos, rec)]
        adv == saveKeyAdvance(s, Len(rec))
    IN CASE fail \in {"open", "seek"} -> [err |-> "io", sm |-> s, disk |-> d]
         [] fail = "write" -> [err |-> "io", sm |-> s, disk |-> part]
         [] fail = "sync" -> [err |-> "io", sm |-> s, disk |-> full]
         [] fail \in {"hseek", "hwrite"} -> [err |-> "io", sm |-> adv, disk |-> full]
         [] fail = "hsync" -> [err |-> "io", sm |-> adv, disk |-> saveHeader(full, adv)]
         [] fail = "none" -> [err |-> "nil", sm |-> adv, disk |-> saveHeader(full, adv)]

\* what the call c returns when it runs alone on the manager s; for CreateKey
\* and AddKey, the outcome of the checks ("nil": the key goes to saveKey)
Alone(s, c) ==
    CASE c.call = "CreateKey" -> CreateKeyCheck(s, c.key.Name, c.key.CipherType)
      [] c.call = "AddKey" -> AddKeyCheck(s, c.key)
      [] c.call = "IDByName" -> IDByName(s, c.name)
      [] c.call = "KeyByName" -> KeyByName(s, c.name)
      [] c.call = "KeyByID" -> KeyByID(s, c.id)
      [] c.call = "AllSkykeys" -> AllSkykeys(s)

\* the first statement of a method after it has taken the mutex
FirstStep(call) ==
    CASE call \in {"CreateKey", "AddKey"} -> "check"
      [] call = "KeyByName" -> "readname"
      [] call \in {"IDByName", "KeyByID", "AllSkykeys"} -> "read"

ConcInit ==
    /\ disk = saveHeader(ShortFile, [NoManager EXCEPT !.version = skykeyVersion,
                                                      !.fileLen = headerLen])
    /\ alive = TRUE
    /\ sm = load(disk).sm
    /\ op = Idle
    /\ result = NoResult
    /\ accepted = TRUE
    /\ acked = {}
    /\ dirty = FALSE
    /\ untouched = TRUE
    /\ loads = 0
    /\ saves = 0
    /\ NoThreads
    /\ NoEnum
    /\ NoSubkey
    /\ NoResponses

\* the history of calls made one at a time
basevars == <<alive, op, result, accepted, acked, dirty, untouched, loads, saves>>

\* the variables the threads leave alone
svars == <<basevars, enumvars, subvars, respvars>>

\* the calls the threads make: CreateKey of each name, of a name that is
\* too long and of an unsupported cipher type, AddKey of each key, and the
\* lookups of the first name and of the ID of the first key
ThreadCalls ==
    {[NoCall EXCEPT !.call = "CreateKey", !.name = nm,
                    !.key = Skykey(nm, TypeXChaCha20, <<>>)] : nm \in Names \cup {LongName}}
    \cup {[NoCall EXCEPT !.call = "CreateKey", !.name = <<1>>,
                         !.key = Skykey(<<1>>, TypeTwofish, <<>>)]}
    \cup {[NoCall EXCEPT !.call = "AddKey", !.name = sk.Name, !.key = sk] :
             sk \in ThreadKeys}
    \cup {[NoCall EXCEPT !.call = "IDByName", !.name = <<1>>],
          [NoCall EXCEPT !.call = "KeyByName", !.name = <<1>>],
          [NoCall EXCEPT !.call = "KeyByID", !.id = ID(K1)],
          [NoCall EXCEPT !.call = "AllSkykeys"]}

\* thread t makes a call.  CreateKey checks the length of the name and the
\* cipher type before it takes the mutex
Call(t) ==
    /\ thr[t].pc \in {"idle", "done"}
    /\ \E c \in ThreadCalls :
          LET early == IF c.call = "CreateKey" THEN Alone(NoManager, c) ELSE "nil"
              w == [c EXCEPT !.waited = (mu # NoThread)]
          IN thr' = [thr EXCEPT ![t] =
                        IF early # "nil"
                        THEN [w EXCEPT !.pc = "done", !.exp = early, !.ret = early]
                        ELSE [w EXCEPT !.pc = "lock"]]
    /\ UNCHANGED <<disk, sm, mu, wins>>
    /\ UNCHANGED svars

\* sm.mu.Lock()
Lock(t) ==
    /\ thr[t].pc = "lock"
    /\ CanLock(mu)
    /\ mu' = t
    /\ thr' = [thr EXCEPT ![t].pc = FirstStep(thr[t].call),
                          ![t].exp = Alone(sm, thr[t])]
    /\ UNCHANGED <<disk, sm, wins>>
    /\ UNCHANGED svars

\* the method returns ret and the deferred sm.mu.Unlock() runs
Return(t, ret) ==
    /\ thr' = [thr EXCEPT ![t].pc = "done", ![t].ret = ret]
    /\ mu' = NoThread

\* the checks of CreateKey and AddKey on the maps; CreateKey then draws a key
Check(t) ==
    /\ thr[t].pc = "check"
    /\ LET c == thr[t]
           err == Alone(sm, c)
       IN IF err # "nil" THEN Return(t, err)
          ELSE /\ \E e \in XChaChaEntropies :
                     LET sk == IF c.call = "CreateKey"
                               THEN Skykey(c.key.Name, c.key.CipherType, e)
                               ELSE c.key
                     IN /\ c.call = "CreateKey" => ID(sk) \notin DOMAIN sm.keysByID
                        /\ c.call = "AddKey" => e = c.key.Entropy
                        /\ thr' = [thr EXCEPT ![t].pc = "storename", ![t].key = sk]
               /\ UNCHANGED mu
    /\ UNCHANGED <<disk, sm, wins>>
    /\ UNCHANGED svars

\* saveKey: sm.idsByName[skykey.Name] = keyID
StoreName(t) ==
    /\ thr[t].pc = "storename"
    /\ sm' = [sm EXCEPT !.idsByName = Put(@, thr[t].key.Name, ID(thr[t].key))]
    /\ thr' = [thr EXCEPT ![t].pc = "storekey"]
    /\ UNCHANGED <<disk, mu, wins>>
    /\ UNCHANGED svars

\* saveKey: sm.keysByID[keyID] = skykey
StoreKey(t) ==
    /\ thr[t].pc = "storekey"
    /\ sm' = [sm EXCEPT !.keysByID = Put(@, ID(thr[t].key), thr[t].key)]
    /\ thr' = [thr EXCEPT ![t].pc = "save"]
    /\ UNCHANGED <<disk, mu, wins>>
    /\ UNCHANGED svars

\* saveKey: the record is appended and the header rewritten, or an operation
\* on the file fails
Save(t) ==
    /\ thr[t].pc = "save"
    /\ \E fail \in ThreadFails \cup {"none"} :
          LET r == saveKeyRun(sm, disk, thr[t].key, fail) IN
          /\ sm' = r.sm
          /\ disk' = r.disk
          /\ wins' = IF r.err = "nil"
                     THEN Put(wins, thr[t].key,
                              IF thr[t].key \in DOMAIN wins
                              THEN wins[thr[t].key] + 1 ELSE 1)
                     ELSE wins
          /\ Return(t, r.err)
    /\ UNCHANGED svars

\* KeyByName: id, ok := sm.idsByName[name]
ReadName(t) ==
    /\ thr[t].pc = "readname"
    /\ IF thr[t].name \notin DOMAIN sm.idsByName
       THEN Return(t, [err |-> "NoSuchName", key |-> NoKey])
       ELSE /\ thr' = [thr EXCEPT ![t].pc = "readkey",
                                  ![t].id = sm.idsByName[thr[t].name]]
            /\ UNCHANGED mu
    /\ UNCHANGED <<disk, sm, wins>>
    /\ UNCHANGED svars

\* KeyByName: key, ok := sm.keysByID[id]
ReadKey(t) ==
    /\ thr[t].pc = "readkey"
    /\ Return(t, KeyByID(sm, thr[t].id))
    /\ UNCHANGED <<disk, sm, wins>>
    /\ UNCHANGED svars

\* IDByName, KeyByID and AllSkykeys read one map
Read(t) ==
    /\ thr[t].pc = "read"
    /\ Return(t, Alone(sm, thr[t]))
    /\ UNCHANGED <<disk, sm, wins>>
    /\ UNCHANGED svars

ConcNext ==
    \E t \in Threads :
        \/ Call(t)
        \/ Lock(t)
        \/ Check(t)
        \/ StoreName(t)
        \/ StoreKey(t)
        \/ Save(t)
        \/ ReadName(t)
        \/ ReadKey(t)
        \/ Read(t)

ConcSpec == ConcInit /\ [][ConcNext]_vars

(***************************************************************************)
(* A caller changes the keys that AllSkykeys returned to it.  A Skykey is  *)
(* a struct: its Name and CipherType are copied with it, its Entropy is a  *)
(* slice, which is copied as a reference to the array that holds the bytes.*)
(* Here the Entropy of a key is such a reference and heap holds the arrays.*)
(***************************************************************************)
\* a []byte: the array it refers to and its length
Slice(a, n) == [arr |-> a, len |-> n]

\* the bytes of the slice sl
BytesOf(h, sl) == SubSeq(h[sl.arr], 1, sl.len)

\* the key sk with the bytes its Entropy refers to
ValueOf(h, sk) == [sk EXCEPT !.Entropy = BytesOf(h, @)]

\* the values the caller writes into a byte of an entropy
EntropyBytes == {0, 1, 2}

\* AllSkykeys: the values of the map are appended to a new slice in the
\* order the map yields its ids
allSkykeysInOrder(s, order) == [i \in DOMAIN order |-> s.keysByID[order[i]]]

\* the orders in which a map may yield the ids in ids
Orders(ids) ==
    {f \in [1..Cardinality(ids) -> ids] :
        \A i, j \in 1..Cardinality(ids) : f[i] = f[j] => i = j}

\* the files of the managers whose keys are enumerated
EnumFiles ==
    {File(SkykeyFileMagic, skykeyVersion, headerLen + RecLen, marshalSia(K1)),
     File(SkykeyFileMagic, skykeyVersion, headerLen + RecLen + RecLen,
          marshalSia(K1) \o marshalSia(K2))}

\* a manager loaded from a file: load decodes the entropy of each record into
\* an array of its own, named here by the ID of the key
EnumInit ==
    /\ disk \in EnumFiles
    /\ alive = TRUE
    /\ LET m == load(disk).sm IN
       /\ sm = [m EXCEPT !.keysByID =
                   [id \in DOMAIN m.keysByID |->
                       [m.keysByID[id] EXCEPT !.Entropy = Slice(id, Len(@))]]]
       /\ heap = [id \in DOMAIN m.keysByID |-> m.keysByID[id].Entropy]
    /\ keys = <<>>
    /\ op = Idle
    /\ result = NoResult
    /\ accepted = TRUE
    /\ acked = {}
    /\ dirty = FALSE
    /\ untouched = TRUE
    /\ loads = 0
    /\ saves = 0
    /\ NoThreads
    /\ NoSubkey
    /\ NoResponses

\* the variables the caller of AllSkykeys leaves alone
evars == <<disk, sm, basevars, thrvars, subvars, respvars>>

\* keys := sm.AllSkykeys()
CallAllSkykeys ==
    /\ \E order \in Orders(DOMAIN sm.keysByID) :
          keys' = allSkykeysInOrder(sm, order)
    /\ UNCHANGED heap
    /\ UNCHANGED evars

\* keys[i].Name = name
SetName ==
    /\ \E i \in DOMAIN keys, name \in Names : keys' = [keys EXCEPT ![i].Name = name]
    /\ UNCHANGED heap
    /\ UNCHANGED evars

\* keys[i].CipherType = ct
SetCipherType ==
    /\ \E i \in DOMAIN keys, ct \in CipherTypes :
          keys' = [keys EXCEPT ![i].CipherType = ct]
    /\ UNCHANGED heap
    /\ UNCHANGED evars

\* keys[i].Entropy[j] = b
SetEntropyByte ==
    /\ \E i \in DOMAIN keys, b \in EntropyBytes :
          \E j \in 1..keys[i].Entropy.len :
              heap' = [heap EXCEPT ![keys[i].Entropy.arr][j] = b]
    /\ UNCHANGED keys
    /\ UNCHANGED evars

EnumNext ==
    \/ CallAllSkykeys
    \/ SetName
    \/ SetCipherType
    \/ SetEntropyByte

EnumSpec == EnumInit /\ [][EnumNext]_vars

(***************************************************************************)
(* SubkeyWithNonce: a key with the key bytes of a key and another nonce.   *)
(***************************************************************************)
\* crypto.NewSiaKey accepts an entropy of the size of the cipher type
NewSiaKeyOK(ct, entropy) ==
    \/ ct = TypeXChaCha20 /\ Len(entropy) = KeySize + XNonceSize
    \/ ct = TypeTwofish /\ Len(entropy) = KeySize

SubkeyWithNonce(sk, n) ==
    IF Len(n) # XNonceSize THEN [err |-> "noncesize", key |-> NoKey]
    ELSE IF Len(sk.Entropy) < KeySize THEN [err |-> "panic", key |-> NoKey]
    ELSE LET entropy == SubSeq(sk.Entropy, 1, KeySize) \o n IN
         IF ~NewSiaKeyOK(sk.CipherType, entropy)
         THEN [err |-> "newsiakey", key |-> NoKey]
         ELSE [err |-> "nil", key |-> Skykey(sk.Name, sk.CipherType, entropy)]

\* the keys SubkeyWithNonce is called on: XChaCha20 keys of each name, key
\* and nonce, a key of another cipher type and a key with a short entropy
MasterKeys ==
    {Skykey(nm, TypeXChaCha20, Fill(k, KeySize) \o Fill(v, XNonceSize)) :
        nm \in Names, k \in {1, 2}, v \in {0, 1}}
    \cup {Skykey(<<1>>, TypeTwofish, Fill(1, KeySize)),
          Skykey(<<1>>, TypeXChaCha20, <<>>)}

\* the nonces given to it: of the right size, empty and too long
Nonces ==
    {Fill(v, XNonceSize) : v \in {0, 1, 2}} \cup {<<>>, Fill(0, XNonceSize + 1)}

SubInit ==
    /\ master \in MasterKeys
    /\ other \in MasterKeys
    /\ nonce \in Nonces
    /\ subkey = [err |-> "", key |-> NoKey]
    /\ disk = ShortFile
    /\ alive = FALSE
    /\ sm = NoManager
    /\ op = Idle
    /\ result = NoResult
    /\ accepted = FALSE
    /\ acked = {}
    /\ dirty = FALSE
    /\ untouched = FALSE
    /\ loads = 0
    /\ saves = 0
    /\ NoThreads
    /\ NoEnum
    /\ NoResponses

\* subkey, err := master.SubkeyWithNonce(nonce)
CallSubkeyWithNonce ==
    /\ subkey.err = ""
    /\ subkey' = SubkeyWithNonce(master, nonce)
    /\ UNCHANGED <<master, other, nonce>>
    /\ UNCHANGED <<disk, sm, basevars, thrvars, enumvars, respvars>>

SubNext == CallSubkeyWithNonce

SubSpec == SubInit /\ [][SubNext]_vars

(***************************************************************************)
(* readResponseSet (TestReadResponseSet): a set made for n responses reads *)
(* them from an unbuffered channel, one by next, all that are left by      *)
(* collect.  A goroutine sends the responses 0, 1, ... on the channel; a   *)
(* send completes when next receives it.  next waits for a response or for *)
(* the end of its context, whichever comes first.                          *)
(***************************************************************************)
newReadResponseSet(n) == [left |-> n, readResps |-> <<>>]

responsesLeft(r) == r.left

nextReceiveNoRetain(r, resp) == [r EXCEPT !.left = @ - 1]

\* next has received resp from the channel: the response is kept and one
\* response less is left
nextReceive(r, resp) == [r EXCEPT !.readResps = Append(@, resp), !.left = @ - 1]

\* context.Background() and a context made by context.WithCancel
Contexts == {"Background", "WithCancel"}

\* the context cx is done
Done(cx) == cx = "WithCancel" /\ ctx

\* the goroutine has a response to send
Sending == chan.i < chan.total

RespInit ==
    /\ \E n \in 0..MaxResponses :
          /\ set = newReadResponseSet(n)
          /\ caller = [NoRespCall EXCEPT !.n = n]
          /\ \E total \in 0..n : chan = [i |-> 0, total |-> total]
    /\ ctx = FALSE
    /\ disk = ShortFile
    /\ alive = FALSE
    /\ sm = NoManager
    /\ op = Idle
    /\ result = NoResult
    /\ accepted = FALSE
    /\ acked = {}
    /\ dirty = FALSE
    /\ untouched = FALSE
    /\ loads = 0
    /\ saves = 0
    /\ NoThreads
    /\ NoEnum
    /\ NoSubkey

\* the variables the readers of the set leave alone
rvars == <<disk, sm, basevars, thrvars, enumvars, subvars>>

\* a call of kind on the set with context cx, as it starts
Started(kind, cx) ==
    [NoRespCall EXCEPT !.pc = "run", !.kind = kind, !.cx = cx, !.n = caller.n,
                       !.left0 = responsesLeft(set)]

\* set.next(cx) is called
CallNext ==
    /\ caller.pc \in {"idle", "done"}
    /\ \E cx \in Contexts : caller' = Started("next", cx)
    /\ UNCHANGED <<set, chan, ctx>>
    /\ UNCHANGED rvars

\* set.collect(cx) is called
CallCollect ==
    /\ caller.pc \in {"idle", "done"}
    /\ \E cx \in Contexts : caller' = Started("collect", cx)
    /\ UNCHANGED <<set, chan, ctx>>
    /\ UNCHANGED rvars

\* cancel() of the context made by context.WithCancel
Cancel ==
    /\ ~ctx
    /\ ctx' = TRUE
    /\ UNCHANGED <<set, chan, caller>>
    /\ UNCHANGED rvars

\* no response is left: next returns nil, collect returns the responses read
Exhausted ==
    /\ caller.pc = "run"
    /\ responsesLeft(set) = 0
    /\ caller' = [caller EXCEPT !.pc = "done", !.isNil = TRUE,
                                !.resps = set.readResps]
    /\ UNCHANGED <<set, chan, ctx>>
    /\ UNCHANGED rvars

\* the goroutine sends its next response and next receives it: next returns
\* it; collect goes on and returns when no response is left
Receive ==
    /\ caller.pc = "run"
    /\ responsesLeft(set) > 0
    /\ Sending
    /\ LET resp == chan.i
           r == nextReceive(set, resp)
       IN /\ set' = r
          /\ chan' = [chan EXCEPT !.i = @ + 1]
          /\ caller' =
                IF caller.kind = "next"
                THEN [caller EXCEPT !.pc = "done", !.isNil = FALSE, !.resp = resp]
                ELSE IF responsesLeft(r) = 0
                THEN [caller EXCEPT !.pc = "done", !.resps = r.readResps]
                ELSE caller
    /\ UNCHANGED ctx
    /\ UNCHANGED rvars

\* the context of the call is done while a response is left: next returns
\* nil, collect returns the responses read
ContextDone ==
    /\ caller.pc = "run"
    /\ responsesLeft(set) > 0
    /\ Done(caller.cx)
    /\ caller' = [caller EXCEPT !.pc = "done", !.isNil = TRUE,
                                !.resps = set.readResps]
    /\ UNCHANGED <<set, chan, ctx>>
    /\ UNCHANGED rvars

RespNext ==
    \/ CallNext
    \/ CallCollect
    \/ Cancel
    \/ Exhausted
    \/ Receive
    \/ ContextDone

RespSpec == RespInit /\ [][RespNext]_vars

(***************************************************************************)
(* Properties.                                                             *)
(***************************************************************************)
\* no operation is in progress on a constructed manager
Quiescent == alive /\ op.kind = "idle"

\* the last call was a CreateKey or AddKey that returned err
Returned(err) == op.kind = "idle" /\ result.op \in Mutations /\ result.err = err

\* a complete record: a name prefix, the name, the cipher type, an entropy
\* prefix and the entropy, and nothing else
IsRecord(r) ==
    /\ Len(r) >= 3
    /\ r[1] + 3 <= Len(r)
    /\ Len(r) = r[1] + 3 + r[r[1] + 3]

\* a concatenation of complete records
RECURSIVE IsRecordSeq(_)
IsRecordSeq(b) ==
    \/ b = <<>>
    \/ \E k \in 1..Len(b) :
          /\ IsRecord(SubSeq(b, 1, k))
          /\ IsRecordSeq(SubSeq(b, k + 1, Len(b)))

\* the bytes of the file that the header's file_len covers
Covered(d) == SubSeq(d.body, 1, d.fileLen - headerLen)

\* C1: whenever CreateKey or AddKey returns an error, both maps are what they
\* were before the call.
C1_FailedMutationLeavesMaps ==
    (op.kind = "idle" /\ result.op \in Mutations /\ result.err # "nil")
        => /\ sm.idsByName = result.pre.idsByName
           /\ sm.keysByID = result.pre.keysByID

\* C2: when no operation is in progress, every key of the maps is a complete
\* record of the persist file that starts at or after headerLen and ends at
\* or before the header's file_len.
C2_KeysArePersisted ==
    Quiescent =>
        \A id \in DOMAIN sm.keysByID :
            LET rec == marshalSia(sm.keysByID[id]) IN
            \E off \in 0..Len(disk.body) :
                /\ headerLen + off + Len(rec) <= disk.fileLen
                /\ SubSeq(disk.body, off + 1, off + Len(rec)) = rec

\* C3: in every state of a file that a load has accepted, also between any
\* two steps of an append and after a crash, the header's file_len lies
\* within the file and covers complete records only.
C3_HeaderCoversCompleteRecords ==
    accepted =>
        /\ ~disk.short
        /\ headerLen <= disk.fileLen
        /\ disk.fileLen <= Size(disk)
        /\ IsRecordSeq(Covered(disk))

\* C3 witness: a record is partly written and the header is the one the call
\* found.
C3_Witness ==
    /\ alive
    /\ op.kind \in Mutations
    /\ op.pc = "write"
    /\ op.written > 0
    /\ disk.fileLen = op.pre.hdrFileLen

\* C4: no two stored keys have the same name.
C4_NamesUnique ==
    \A i, j \in DOMAIN sm.keysByID :
        sm.keysByID[i].Name = sm.keysByID[j].Name => i = j

\* C4 witness: two keys are stored and a call with a stored name was rejected.
C4_Witness ==
    /\ Returned("NameExists")
    /\ Cardinality(DOMAIN sm.keysByID) = 2
    /\ Cardinality(DOMAIN sm.idsByName) = 2

\* C5: no two stored names have the same KeyID, and no two stored keys have
\* the same KeyID.
C5_IDsUnique ==
    /\ \A n1, n2 \in DOMAIN sm.idsByName :
          sm.idsByName[n1] = sm.idsByName[n2] => n1 = n2
    /\ \A k1, k2 \in Range(sm.keysByID) : ID(k1) = ID(k2) => k1 = k2

\* C5 witness: CreateKey has made a second key.
C5_Witness ==
    /\ Returned("nil")
    /\ result.op = "CreateKey"
    /\ Cardinality(DOMAIN sm.idsByName) = 2
    /\ Cardinality(DOMAIN sm.keysByID) = 2

\* C6: every stored key has a supported cipher type, and an AddKey of a key
\* of another cipher type returns UnsupportedCipher.
C6_OnlySupportedCipherStored ==
    /\ \A id \in DOMAIN sm.keysByID : SupportsCipherType(sm.keysByID[id].CipherType)
    /\ (op.kind = "idle" /\ result.op = "AddKey"
            /\ ~SupportsCipherType(result.key.CipherType))
          => result.err = "UnsupportedCipher"

\* C7 (as stated): after a successful CreateKey or AddKey the header's
\* file_len is the size of the file.
C7_FileLenEqualsSize ==
    Returned("nil") => disk.fileLen = Size(disk)

\* C7 (amended): after a successful CreateKey or AddKey the header's file_len
\* is the offset just past the new record and is at most the size of the
\* file; it is the size of the file exactly when the file held no bytes past
\* that offset before the call.
C7_FileLenWithinSize ==
    Returned("nil") =>
        /\ disk.fileLen = result.pre.fileLen + Len(marshalSia(result.key))
        /\ disk.fileLen <= Size(disk)
        /\ (disk.fileLen = Size(disk)) <=> (result.pre.size <= disk.fileLen)

\* C7 witness: a call has succeeded on a file whose trailing bytes reach past
\* the new record.
C7_Witness ==
    /\ Returned("nil")
    /\ result.pre.size > result.pre.hdrFileLen
    /\ disk.fileLen < Size(disk)

\* C8: when a manager on which every save succeeded is idle and a new manager
\* is opened on the same file, the new manager holds exactly the keys the
\* old one loaded or saved, and finds each of them by name and by ID.
C8_RoundTrip ==
    [][(loads' = loads + 1 /\ alive /\ ~dirty /\ result'.err # "io")
          => /\ alive'
             /\ AllSkykeys(sm') = acked
             /\ \A k \in acked :
                   /\ KeyByName(sm', k.Name) = [err |-> "nil", key |-> k]
                   /\ KeyByID(sm', ID(k)) = [err |-> "nil", key |-> k]]_vars

\* C8 witness: a manager reopened on the file of a manager without failed
\* saves holds two keys.
C8_Witness ==
    /\ alive
    /\ result.op = "NewSkykeyManager"
    /\ result.reopen
    /\ Cardinality(AllSkykeys(sm)) = 2

\* the file without the bytes past the header's file_len
Truncate(d) ==
    IF d.fileLen - headerLen < Len(d.body)
    THEN [d EXCEPT !.body = SubSeq(d.body, 1, d.fileLen - headerLen)]
    ELSE d

\* C9: load succeeds exactly when it succeeds on the file cut at file_len and
\* then returns the same manager; a save that succeeds has its record at the
\* manager's file_len, over whatever bytes were there, and for the first save
\* on a loaded manager this is the file_len of the header.
C9_TrailingBytesIgnored ==
    /\ (result.op = "NewSkykeyManager" /\ result.err # "io")
          => LET t == load(Truncate(disk)) IN
             /\ (result.err = "nil") <=> (t.err = "nil")
             /\ result.err = "nil" => sm = t.sm
    /\ Returned("nil")
          => LET rec == marshalSia(result.key)
                 off == result.pre.fileLen - headerLen
             IN /\ SubSeq(disk.body, off + 1, off + Len(rec)) = rec
                /\ disk.fileLen = result.pre.fileLen + Len(rec)
                /\ result.first => result.pre.fileLen = result.pre.hdrFileLen

\* C9 witness: the first CreateKey on a manager loaded from a file with bytes
\* past file_len has succeeded.
C9_Witness ==
    /\ Returned("nil")
    /\ result.op = "CreateKey"
    /\ result.first
    /\ result.pre.size > result.pre.hdrFileLen

\* the header's file_len lies within the file and the bytes between the
\* header and file_len are complete records
ExactRecords(d) ==
    /\ ~d.short
    /\ headerLen <= d.fileLen
    /\ d.fileLen <= Size(d)
    /\ IsRecordSeq(Covered(d))

\* C10: a load that succeeds has read complete records up to file_len
\* exactly; a load that fails returns no manager.
C10_LoadConsistency ==
    result.op = "NewSkykeyManager" =>
        /\ result.err = "nil" => (alive /\ ExactRecords(disk) /\ sm.fileLen = disk.fileLen)
        /\ result.err # "nil" => (~alive /\ sm = NoManager)
        /\ (~disk.short /\ ~ExactRecords(disk)) => result.err # "nil"

\* C10 witness: a load has failed on a file whose file_len lies inside a
\* record.
C10_Witness ==
    /\ result.op = "NewSkykeyManager"
    /\ result.err = "length"
    /\ ~alive

\* thread t holds the mutex
InCritical(t) == thr[t].pc \notin {"idle", "lock", "done"}

\* the call c returned what it returns when it runs alone on the manager as
\* it was when c took the mutex; a save that passes the checks returns nil or
\* the error of the file
Agrees(c) ==
    IF c.call \in Mutations /\ c.exp = "nil"
    THEN c.ret \in {"nil", "io"}
    ELSE c.ret = c.exp

\* C11: with several threads on one manager, at most one thread is inside a
\* method at a time and every call returns what it would return alone at the
\* moment it took the mutex; no key is saved with success twice, no two keys
\* saved with success share a name or an ID, and KeyByName never finds a name
\* whose ID has no key.
C11_CallsAreSerialized ==
    /\ \A t1, t2 \in Threads : (InCritical(t1) /\ InCritical(t2)) => t1 = t2
    /\ \A t \in Threads : thr[t].pc = "done" => Agrees(thr[t])
    /\ \A t \in Threads :
          (thr[t].pc = "done" /\ thr[t].call = "KeyByName")
             => thr[t].ret.err # "NoSuchID"
    /\ \A k1, k2 \in DOMAIN wins :
          /\ wins[k1] <= 1
          /\ (k1.Name = k2.Name \/ ID(k1) = ID(k2)) => k1 = k2

\* C11 witness: two threads have made a CreateKey of the same name, the
\* second while the first held the mutex; one returned nil and the other
\* NameExists.
C11_Witness ==
    \E t1, t2 \in Threads :
        /\ thr[t1].pc = "done" /\ thr[t1].call = "CreateKey" /\ thr[t1].ret = "nil"
        /\ thr[t2].pc = "done" /\ thr[t2].call = "CreateKey"
        /\ thr[t2].ret = "NameExists"
        /\ thr[t2].waited
        /\ thr[t1].key.Name = thr[t2].key.Name

\* a step in which a call of kind made on an idle manager returns at once
Rejects(kind) ==
    alive /\ op.kind = "idle" /\ op'.kind = "idle" /\ result'.op = kind

\* a step in which a call of kind made on an idle manager goes on to saveKey
Saves(kind) == alive /\ op.kind = "idle" /\ op'.kind = kind

\* C12: an AddKey of a key whose ID is stored returns IDExists, also when its
\* name is stored too; an AddKey of a key whose name only is stored returns
\* NameExists; both leave the maps, the manager's fileLen and the file as
\* they are, and no AddKey of a stored ID or name goes on to saveKey.
C12_AddKeyUniquenessErrors ==
    [][/\ Saves("AddKey")
            => /\ ID(op'.key) \notin DOMAIN sm.keysByID
               /\ op'.key.Name \notin DOMAIN sm.idsByName
       /\ (Rejects("AddKey") /\ ~IDPanics(result'.key))
            => /\ ID(result'.key) \in DOMAIN sm.keysByID
                    => result'.err = "IDExists"
               /\ ID(result'.key) \notin DOMAIN sm.keysByID
                    => /\ result'.key.Name \in DOMAIN sm.idsByName
                       /\ result'.err = "NameExists"
               /\ sm' = sm
               /\ disk' = disk]_vars

\* C12 witness: an AddKey of a key that has the ID of one stored key and the
\* name of another has returned IDExists.
C12_Witness ==
    /\ Returned("IDExists")
    /\ result.op = "AddKey"
    /\ ID(result.key) \in DOMAIN sm.keysByID
    /\ result.key.Name \in DOMAIN sm.idsByName
    /\ sm.idsByName[result.key.Name] # ID(result.key)

\* the errors the arguments of a CreateKey ask for on the manager s
CreateKeyErrors(s, name, ct) ==
    (IF Len(name) > MaxKeyNameLen THEN {"NameTooLong"} ELSE {})
    \cup (IF ~SupportsCipherType(ct) THEN {"UnsupportedCipher"} ELSE {})
    \cup (IF name \in DOMAIN s.idsByName THEN {"NameExists"} ELSE {})

\* C13: a CreateKey with a name longer than MaxKeyNameLen, an unsupported
\* cipher type or a stored name returns the error of one of these faults and
\* leaves the maps, the manager's fileLen and the file as they are; no such
\* call goes on to saveKey.
C13_CreateKeyRejections ==
    [][/\ Saves("CreateKey")
            => CreateKeyErrors(sm, op'.key.Name, op'.key.CipherType) = {}
       /\ Rejects("CreateKey")
            => /\ result'.err \in CreateKeyErrors(sm, result'.key.Name,
                                                  result'.key.CipherType)
               /\ sm' = sm
               /\ disk' = disk]_vars

\* C13 witness: on a manager that holds a key, a CreateKey of an unsupported
\* cipher type has returned UnsupportedCipher.
C13_Witness ==
    /\ Returned("UnsupportedCipher")
    /\ result.op = "CreateKey"
    /\ result.pre.keysByID # EmptyMap
    /\ sm.keysByID = result.pre.keysByID

\* the keys of the records of body between the offsets off and end
RECURSIVE Records(_, _, _)
Records(body, off, end) ==
    IF off >= end THEN {}
    ELSE LET r == unmarshalSia(body, off) IN
         IF ~r.ok THEN {}
         ELSE {r.sk} \cup Records(body, r.off, end)

\* the header of the file d is one that load refuses
BadHeader(d) ==
    \/ d.magic # SkykeyFileMagic
    \/ ~IsVersion(d.version)
    \/ VersionCmp(d.version, skykeyVersion) > 0

\* the records of the file d end at file_len and each has an ID
Loadable(d) ==
    /\ ExactRecords(d)
    /\ \A k \in Records(d.body, 0, d.fileLen - headerLen) : ~IDPanics(k)

\* C14: a load of a file with a header fails when the magic is not
\* SkykeyFileMagic, when the version is no version or when it is newer than
\* skykeyVersion; with the right magic and a version that is not newer the
\* header is accepted, and when the records end at file_len the load
\* succeeds, keeps the version of the file and holds the keys of the records.
C14_VersionNegotiation ==
    (result.op = "NewSkykeyManager" /\ result.err # "io") =>
        /\ BadHeader(disk) => (result.err # "nil" /\ ~alive)
        /\ ~BadHeader(disk)
              => /\ result.err \notin {"magic", "noversion", "unknownversion"}
                 /\ Loadable(disk)
                       => /\ result.err = "nil"
                          /\ alive
                          /\ sm.version = disk.version
                          /\ AllSkykeys(sm) =
                                Records(disk.body, 0, disk.fileLen - headerLen)

\* C14 witness: a load has accepted a file of an older version and holds the
\* key of its record.
C14_Witness ==
    /\ result.op = "NewSkykeyManager"
    /\ result.err = "nil"
    /\ VersionCmp(disk.version, skykeyVersion) < 0
    /\ AllSkykeys(sm) # {}

\* C15: AllSkykeys returns one entry for each stored key, and whatever the
\* caller writes into the keys it was given, KeyByName, KeyByID and
\* AllSkykeys go on returning the keys of the records the manager was loaded
\* from.
C15_EnumerationIsolation ==
    LET m == load(disk).sm IN
    /\ keys # <<>> => Len(keys) = Cardinality(DOMAIN sm.keysByID)
    /\ \A name \in DOMAIN sm.idsByName :
          ValueOf(heap, KeyByName(sm, name).key) = KeyByName(m, name).key
    /\ \A id \in DOMAIN sm.keysByID :
          ValueOf(heap, KeyByID(sm, id).key) = KeyByID(m, id).key
    /\ {ValueOf(heap, k) : k \in AllSkykeys(sm)} = AllSkykeys(m)

\* a key of the supported cipher type with an entropy of the full size
ValidKey(k) ==
    /\ SupportsCipherType(k.CipherType)
    /\ Len(k.Entropy) = KeySize + XNonceSize

\* the key part of the entropy of k
KeyBytes(k) == SubSeq(k.Entropy, 1, KeySize)

\* C16: for a key with the supported cipher type and a full entropy and a
\* nonce of XNonceSize bytes, SubkeyWithNonce succeeds and returns a key with
\* the same name, cipher type and key bytes, the given nonce and the same ID;
\* two such keys with different key bytes have different IDs.
C16_IDStableUnderNonce ==
    /\ (subkey.err # "" /\ ValidKey(master) /\ Len(nonce) = XNonceSize)
          => /\ subkey.err = "nil"
             /\ subkey.key.Name = master.Name
             /\ subkey.key.CipherType = master.CipherType
             /\ subkey.key.Entropy = KeyBytes(master) \o nonce
             /\ ID(subkey.key) = ID(master)
             /\ (ValidKey(other) /\ KeyBytes(other) # KeyBytes(subkey.key))
                   => ID(other) # ID(subkey.key)
    /\ (ValidKey(master) /\ ValidKey(other) /\ KeyBytes(master) # KeyBytes(other))
          => ID(master) # ID(other)

\* C16 witness: SubkeyWithNonce has returned a key whose nonce is not the one
\* of the key it was called on.
C16_Witness ==
    /\ subkey.err = "nil"
    /\ ValidKey(master)
    /\ subkey.key.Entropy # master.Entropy

\* C17: on one manager, every step keeps each stored name with its key and
\* each stored ID with its key, so that KeyByName and KeyByID return for
\* them what they returned before, and the number of stored keys does not
\* go down.
C17_MonotonicGrowth ==
    [][(alive /\ alive' /\ loads' = loads)
          => /\ \A name \in DOMAIN sm.idsByName :
                   KeyByName(sm', name) = KeyByName(sm, name)
             /\ \A id \in DOMAIN sm.keysByID :
                   KeyByID(sm', id) = KeyByID(sm, id)
             /\ Cardinality(AllSkykeys(sm')) >= Cardinality(AllSkykeys(sm))]_vars

\* C17 witness: a call has added a key to a manager that held one, and the
\* key held before is still found by its ID.
C17_Witness ==
    /\ Returned("nil")
    /\ result.pre.keysByID # EmptyMap
    /\ Cardinality(DOMAIN sm.keysByID) > Cardinality(DOMAIN result.pre.keysByID)
    /\ \A id \in DOMAIN result.pre.keysByID :
          KeyByID(sm, id).key = result.pre.keysByID[id]

\* C18: every ID that a stored name maps to has a key, and that key bears
\* the name; KeyByName returns NoSuchID for no name and, for a stored name,
\* returns a key of this name whose ID is the one IDByName returns.
C18_DualIndexConsistency ==
    /\ \A name \in DOMAIN sm.idsByName :
          /\ sm.idsByName[name] \in DOMAIN sm.keysByID
          /\ sm.keysByID[sm.idsByName[name]].Name = name
          /\ KeyByName(sm, name).err = "nil"
          /\ KeyByName(sm, name).key.Name = name
          /\ ID(KeyByName(sm, name).key) = IDByName(sm, name).id
    /\ \A name \in Names \cup {LongName} : KeyByName(sm, name).err # "NoSuchID"

\* C18 witness: an AddKey on a manager that held a key has succeeded and
\* KeyByName finds the new key.
C18_Witness ==
    /\ Returned("nil")
    /\ result.op = "AddKey"
    /\ result.pre.idsByName # EmptyMap
    /\ KeyByName(sm, result.key.Name) = [err |-> "nil", key |-> result.key]

\* C19: when a manager is idle, whether or not some of its saves returned an
\* error, and a new manager is opened on the same file, the new manager holds
\* exactly the keys the old one loaded or saved with success.
C19_ReopenRecoversAcknowledged ==
    [][(loads' = loads + 1 /\ alive /\ result'.err # "io")
          => /\ alive'
             /\ AllSkykeys(sm') = acked]_vars

\* C20: when no operation is in progress on a constructed manager, its
\* fileLen is the file_len of the header of the file.
C20_FileLenMatchesHeader ==
    Quiescent => sm.fileLen = disk.fileLen

\* C21: the fileLen of a manager that NewSkykeyManager returned is at least
\* headerLen in every state; a file without a header gives a manager and a
\* header with fileLen = headerLen, a file whose header has a file_len below
\* headerLen gives no manager, and no step of a CreateKey or AddKey, whether
\* the call succeeds or fails, lowers fileLen.
C21_FileLenAtLeastHeaderLen ==
    [][/\ alive' => sm'.fileLen >= headerLen
       /\ (loads' = loads + 1 /\ disk.short /\ alive')
             => /\ sm'.fileLen = headerLen
                /\ disk'.fileLen = headerLen
       /\ (loads' = loads + 1 /\ ~disk.short /\ disk.fileLen < headerLen)
             => ~alive'
       /\ (alive /\ alive' /\ loads' = loads)
             => sm'.fileLen >= sm.fileLen]_vars

\* C21 witness: a CreateKey or AddKey has returned an error and left fileLen
\* above what it was.
C21_Witness ==
    /\ alive
    /\ Returned("io")
    /\ sm.fileLen > result.pre.fileLen
    /\ result.pre.fileLen >= headerLen


\* the first k responses of the goroutine, in the order it sends them
Sent(k) == [j \in 1..k |-> j - 1]

\* the call of kind on the set has returned
ReturnedFrom(kind) == caller.pc = "done" /\ caller.kind = kind

\* C22: a set made for n responses has n responses left before any read;
\* next returns the responses in the order they were sent, one per call,
\* while responses are left, and nil once none is left; collect returns
\* every response received so far, those returned by next included, in the
\* order of arrival, and returns before the set is exhausted only when its
\* context is cancelled.
C22_ResponseSetOrderAndRetention ==
    /\ caller.pc = "idle" => responsesLeft(set) = caller.n
    /\ ReturnedFrom("next") =>
          /\ caller.left0 = 0 => caller.isNil
          /\ (caller.left0 > 0 /\ caller.cx = "Background") => ~caller.isNil
          /\ ~caller.isNil =>
                /\ caller.resp = caller.n - caller.left0
                /\ responsesLeft(set) = caller.left0 - 1
          /\ caller.isNil => responsesLeft(set) = caller.left0
    /\ ReturnedFrom("collect") =>
          /\ caller.resps = Sent(caller.n - responsesLeft(set))
          /\ Len(caller.resps) = chan.i
          /\ responsesLeft(set) > 0 => Done(caller.cx)

\* collect was called after a read, received a further response, and
\* returned on the cancelled context with a response still left
C22_Witness ==
    /\ ReturnedFrom("collect")
    /\ caller.left0 < caller.n
    /\ Len(caller.resps) > caller.n - caller.left0
    /\ responsesLeft(set) > 0
    /\ Done(caller.cx)

====
